---- MODULE Spec2Model ----
(***************************************************************************)
(* A model of the HLT rechit plotting tools:                               *)
(*   helpers/cut.py                   TwoDimensionalCut (SpecCut)          *)
(*   cut_search.py                    the threshold scan (SpecCutSearch)   *)
(*   helpers/rootfile.py              RootFile.get_histogram (SpecRootFile)*)
(*   helpers/histogram.py             Histogram / OverlayHistogram         *)
(*                                    (SpecHistogram)                      *)
(*   plot.py + util.py                histogram lists and plot tags        *)
(*                                    (SpecPlot)                           *)
(*   plot.py                          main (SpecMain)                      *)
(*                                                                         *)
(* Numbers.  Bin edges, bin centres and thresholds are lengths in units of *)
(* 1/780, so that 0.1 is 78, 0.3 is 234, the linspace step 0.2/39 is 4 and *)
(* the midpoint of two (even) edges is an integer.  Bin contents are       *)
(* integers.  A quotient is kept as the pair [n, d] of its numerator and   *)
(* denominator (d = 0 is numpy's inf or nan: a float division by zero      *)
(* warns and does not raise); numpy.ma.masked is the value Masked.         *)
(* Floating-point rounding is not modelled.                                *)
(***************************************************************************)
EXTENDS Integers, Sequences, FiniteSets, TLC

VARIABLES
    \* ---- helpers/cut.py
    cut,                \* the TwoDimensionalCut instance (<<>>: none)
    cut_masked,         \* what its return_masked_array returned (<<>>: no call)
    \* ---- cut_search.py
    histos,             \* tag -> uproot 2D histogram [edges, values]
    pc,                 \* position in cut_search.main
    k,                  \* index of the next threshold of the scan loop
    s_over_b,           \* plot_s_over_b's three lists
    noise_rejection,
    physics_rejection,
    scanned,            \* the thresholds the loop has passed through, in order
    sb_result,          \* what the last compute_s_over_b returned (<<>>: no call yet)
    fig,                \* what plot_s_over_b drew (<<>>: nothing yet)
    ret,                \* plot_s_over_b's return value (<<>>: None)
    \* ---- the file system (os.path.exists, os.makedirs, fig.savefig)
    fs_dirs,
    fs_files,
    \* ---- helpers/rootfile.py
    rf_file,            \* the ROOT file: its top-level directories in key order
    rf_pc,              \* "new" before RootFile(inpath), "open" after
    rf_keys,            \* self.keys
    rf_histname,        \* the argument of the last get_histogram (<<>>: no call)
    rf_result,          \* what it returned or raised (<<>>: no call)
    \* ---- helpers/histogram.py
    hist,               \* the Histogram or OverlayHistogram instance (<<>>: none)
    h_pc,               \* "new", "constructed", "attached", "plotted", "raised"
    h_call,             \* the arguments of the constructor call (<<>>: no call)
    h_exc,              \* the exception the last call raised ("": none)
    h_outdir,           \* the outdir argument of plot (<<>>: no call)
    drawn,              \* what plot drew (<<>>: nothing)
    \* ---- plot.py and util.py
    dataset,            \* the --dataset argument
    gh_pc,              \* get_histograms_for_dataset: the number of the next
                        \* constructor call (of the last one, once it ended)
    gh_lists,           \* its four lists, as built so far
    gh_result,          \* what it returned or raised (<<>>: still running)
    tag_result,         \* what get_pretty_plot_tag(dataset) returned or raised
    tag_parts,          \* what _decorate_plot made of that tag
    \* ---- plot.py, main
    distribution,       \* the --distribution argument
    m_pc,               \* position in main: "start", "histograms", "loop",
                        \* "done", "raised"
    m_i,                \* index in histograms of the loop's next histogram
    m_plotted,          \* the histograms hist.plot has plotted, in order
    m_exc               \* the exception that ended main ("": none)

cutVars == <<cut, cut_masked, histos, pc, k, s_over_b, noise_rejection,
             physics_rejection, scanned, sb_result, fig, ret>>
fsVars == <<fs_dirs, fs_files>>
rfVars == <<rf_file, rf_pc, rf_keys, rf_histname, rf_result>>
histVars == <<hist, h_pc, h_call, h_exc, h_outdir, drawn>>
mainVars == <<distribution, m_pc, m_i, m_plotted, m_exc>>
plotVars == <<dataset, gh_pc, gh_lists, gh_result, tag_result, tag_parts, mainVars>>
vars == <<cutVars, fsVars, rfVars, histVars, plotVars>>

(***************************************************************************)
(* Bounds of the model.                                                    *)
(***************************************************************************)
\* Largest content of one histogram bin.
MaxCount == 1
\* Largest number of top-level directories of a ROOT file.
MaxDirs == 2

(***************************************************************************)
(* Arithmetic on numpy scalars.                                            *)
(***************************************************************************)
Masked == [masked |-> TRUE, n |-> 0, d |-> 0]
Num(a) == [masked |-> FALSE, n |-> a, d |-> 1]

\* a / b on numpy scalars: masked when either operand is masked.
TrueDiv(a, b) ==
    IF a.masked \/ b.masked THEN Masked
    ELSE [masked |-> FALSE, n |-> a.n * b.d, d |-> a.d * b.n]

\* 1 - a
OneMinus(a) ==
    IF a.masked THEN Masked
    ELSE [masked |-> FALSE, n |-> a.d - a.n, d |-> a.d]

\* A numpy array is evaluated when it is built: Array(f) is the sequence f
\* with its elements computed once.
Array(f) == f \o <<>>

RECURSIVE SumSeq(_)
SumSeq(s) == IF s = <<>> THEN 0 ELSE s[1] + SumSeq(Tail(s))

\* np.sum of a plain 2D array (a sequence of rows).
NpSum(m) == SumSeq(Array([r \in 1..Len(m) |-> SumSeq(m[r])]))

\* ndarray.T
Transpose(m) ==
    IF m = <<>> THEN <<>>
    ELSE Array([c \in 1..Len(m[1]) |-> Array([r \in 1..Len(m) |-> m[r][c]])])

(***************************************************************************)
(* Paths and the file system.  A directory path is the sequence of its     *)
(* components; a file path is [dir, file], file the pieces of its name.    *)
(***************************************************************************)
\* os.makedirs(d): d and every missing ancestor.
makedirs(dirs, d) == dirs \cup {SubSeq(d, 1, i) : i \in 1..Len(d)}

\* os.path.join(outdir, filename) and os.path.dirname(path)
join(outdir, filename) == [dir |-> outdir, file |-> filename]
dirname(path) == path.dir

(***************************************************************************)
(* helpers/cut.py: TwoDimensionalCut                                       *)
(***************************************************************************)
\* 0.5 * (edges[1:] + edges[:-1])
Centers(edges) == Array([i \in 1..(Len(edges) - 1) |-> (edges[i + 1] + edges[i]) \div 2])

\* np.meshgrid(xcenters, ycenters): two (ny, nx) grids.
Meshgrid(xcenters, ycenters) ==
    [x |-> Array([iy \in 1..Len(ycenters) |-> Array([ix \in 1..Len(xcenters) |-> xcenters[ix]])]),
     y |-> Array([iy \in 1..Len(ycenters) |-> Array([ix \in 1..Len(xcenters) |-> ycenters[iy]])])]

\* eval(mask_expression) with x and y bound to the grids.  An expression is
\* [lhs, op, rhs]: the text lhs op rhs, lhs one of "x", "y", op "<" or ">".
EvalMask(e, grid) ==
    LET g == IF e.lhs = "x" THEN grid.x ELSE grid.y
    IN  Array([iy \in 1..Len(g) |-> Array([ix \in 1..Len(g[iy]) |->
            IF e.op = "<" THEN g[iy][ix] < e.rhs ELSE g[iy][ix] > e.rhs])])

\* ~mask
Invert(mask) == Array([iy \in 1..Len(mask) |-> Array([ix \in 1..Len(mask[iy]) |-> ~mask[iy][ix]])])

\* TwoDimensionalCut(xedges, yedges, values, mask_expression): the instance
\* after __post_init__, which computes the centers.
TwoDimensionalCut(xedges, yedges, values, mask_expression) ==
    [xedges |-> xedges, yedges |-> yedges, values |-> values,
     mask_expression |-> mask_expression,
     xcenters |-> Centers(xedges), ycenters |-> Centers(yedges)]

\* A return_masked_array that hands the mask over as it is.
MutReturnMaskedArrayNoInvert(self) ==
    [data |-> self.values,
     mask |-> EvalMask(self.mask_expression, Meshgrid(self.xcenters, self.ycenters))]

\* np.ma.MaskedArray(self.values, ~mask): a cell is masked where the mask
\* given to the constructor is True.
return_masked_array(self) ==
    LET grid == Meshgrid(self.xcenters, self.ycenters)
        mask == EvalMask(self.mask_expression, grid)
    IN  [data |-> self.values, mask |-> Invert(mask)]

\* np.sum of a masked array: the sum of the cells that are not masked, and
\* numpy.ma.masked when every cell is masked.
MaSum(ma) ==
    IF \A iy \in 1..Len(ma.mask) : \A ix \in 1..Len(ma.mask[iy]) : ma.mask[iy][ix]
    THEN Masked
    ELSE Num(NpSum(Array([iy \in 1..Len(ma.data) |-> Array([ix \in 1..Len(ma.data[iy]) |->
                        IF ma.mask[iy][ix] THEN 0 ELSE ma.data[iy][ix]])])))

(***************************************************************************)
(* cut_search.py                                                           *)
(***************************************************************************)
Tags == {"Physics Enriched", "Noise Enriched"}

\* np.linspace(0.1, 0.3, 40), in units of 1/780.
ThreshStart == 78
ThreshStop == 234
NumThresholds == 40

\* linspace without its endpoint (endpoint=False).
MutLinspaceNoEndpoint(start, stop, num) ==
    Array([i \in 1..num |-> start + ((i - 1) * (stop - start)) \div num])

linspace(start, stop, num) ==
    Array([i \in 1..num |-> start + ((i - 1) * (stop - start)) \div (num - 1)])

thresholds == linspace(ThreshStart, ThreshStop, NumThresholds)

\* f'{exp_base}{thresh}' with exp_base = 'x<'
ScanExpression(thresh) == [lhs |-> "x", op |-> "<", rhs |-> thresh]

\* One pass of compute_s_over_b's loop over histos.items(): the number of
\* events passing the mask and the efficiency of one histogram.
PassingAndEff(h, mask_expression) ==
    LET values == Transpose(h.values)
        cut_ == TwoDimensionalCut(h.edges[1], h.edges[2], values, mask_expression)
        masked_array == return_masked_array(cut_)
    IN  [number_of_events |-> MaSum(masked_array),
         eff |-> TrueDiv(MaSum(masked_array), Num(NpSum(values)))]

compute_s_over_b(hs, mask_expression) ==
    LET p == PassingAndEff(hs["Physics Enriched"], mask_expression)
        n == PassingAndEff(hs["Noise Enriched"], mask_expression)
    IN  <<TrueDiv(p.number_of_events, n.number_of_events), p.eff, n.eff>>

\* What plot_s_over_b draws: three scatter series against the thresholds, the
\* y axis limited to [0, 1].
ScatterFigure(th, sb, nr, pr) ==
    [x |-> th, series |-> <<sb, nr, pr>>, ylim |-> <<0, 1>>]

\* A plot_s_over_b that returned the index of the first threshold.
MutReturnsThreshold(sb) == <<1>>

\* plot_s_over_b has no return statement: it returns None (<<>>), whatever
\* the S/B values are.
plot_s_over_b_return(sb) == <<>>

\* The inputs: 2D histograms as uproot hands them over, values[ix][iy].
Matrices(nx, ny) == [1..nx -> [1..ny -> 0..MaxCount]]

PhysicsHistos ==
    {[edges |-> <<xe, <<0, 40, 80>> >>, values |-> v] :
        xe \in {<<0, 156, 312>>, <<0, 80, 240>>}, v \in Matrices(2, 2)}

NoiseHistos ==
    {[edges |-> <<xe, <<0, 100>> >>, values |-> v] :
        xe \in {<<0, 156, 312>>, <<160, 200, 400>>}, v \in Matrices(2, 1)}

\* outdir = './output/cut_search'; pjoin(outdir, 'cut_search.pdf')
CutOutdir == <<".", "output", "cut_search">>
CutOutpath == [dir |-> CutOutdir, file |-> <<"cut_search", ".pdf">>]

\* A tool that is not running.
CutIdle == cut = <<>> /\ cut_masked = <<>>

CutSearchIdle ==
    /\ histos = <<>> /\ pc = "off" /\ k = 0
    /\ s_over_b = <<>> /\ noise_rejection = <<>> /\ physics_rejection = <<>>
    /\ scanned = <<>> /\ sb_result = <<>>
    /\ fig = <<>> /\ ret = <<>>

RootFileIdle ==
    /\ rf_file = <<>> /\ rf_pc = "off" /\ rf_keys = <<>>
    /\ rf_histname = <<>> /\ rf_result = <<>>

HistogramIdle ==
    /\ hist = <<>> /\ h_pc = "off" /\ h_call = <<>> /\ h_exc = ""
    /\ h_outdir = <<>> /\ drawn = <<>>

MainIdle ==
    /\ distribution = <<>> /\ m_pc = "off" /\ m_i = 0
    /\ m_plotted = <<>> /\ m_exc = ""

PlotIdle ==
    /\ dataset = "" /\ gh_pc = 0 /\ gh_lists = <<>> /\ gh_result = <<>>
    /\ tag_result = <<>> /\ tag_parts = <<>>
    /\ MainIdle

\* ---- helpers/cut.py: a cut is built and asked for its masked array
CutXEdges == {<<0, 156, 312>>, <<0, 80, 240>>, <<160, 200, 400>>}
CutYEdges == {<<0, 40, 80>>, <<0, 100>>}
MaskExpressions ==
    {[lhs |-> l, op |-> o, rhs |-> t] :
        l \in {"x", "y"}, o \in {"<", ">"}, t \in {thresholds[1], thresholds[12], thresholds[40]}}

CutInit ==
    /\ CutSearchIdle
    /\ RootFileIdle
    /\ HistogramIdle
    /\ PlotIdle
    /\ fs_dirs = {} /\ fs_files = {}
    /\ cut = <<>>
    /\ cut_masked = <<>>

\* cut = TwoDimensionalCut(xedges, yedges, values, mask_expression), values
\* of shape (ny, nx)
NewCut ==
    /\ cut = <<>>
    /\ \E xe \in CutXEdges, ye \in CutYEdges, e \in MaskExpressions :
           \E v \in [1..(Len(ye) - 1) -> [1..(Len(xe) - 1) -> 0..MaxCount]] :
               cut' = TwoDimensionalCut(xe, ye, v, e)
    /\ UNCHANGED <<cut_masked, histos, pc, k, s_over_b, noise_rejection,
                   physics_rejection, scanned, sb_result, fig, ret>>
    /\ UNCHANGED <<fsVars, rfVars, histVars, plotVars>>

\* cut.return_masked_array()
ReturnMaskedArray ==
    /\ cut # <<>>
    /\ cut_masked = <<>>
    /\ cut_masked' = return_masked_array(cut)
    /\ UNCHANGED <<cut, histos, pc, k, s_over_b, noise_rejection,
                   physics_rejection, scanned, sb_result, fig, ret>>
    /\ UNCHANGED <<fsVars, rfVars, histVars, plotVars>>

CutNext == NewCut \/ ReturnMaskedArray

SpecCut == CutInit /\ [][CutNext]_vars

\* ---- cut_search.py
CutSearchInit ==
    /\ CutIdle
    /\ RootFileIdle
    /\ HistogramIdle
    /\ PlotIdle
    /\ histos \in {[t \in Tags |-> IF t = "Physics Enriched" THEN p ELSE n] :
                      p \in PhysicsHistos, n \in NoiseHistos}
    /\ pc = "main"
    /\ k = 1
    /\ s_over_b = <<>>
    /\ noise_rejection = <<>>
    /\ physics_rejection = <<>>
    /\ scanned = <<>>
    /\ sb_result = <<>>
    /\ fig = <<>>
    /\ ret = <<>>
    /\ fs_dirs \in {{<<".">>}, makedirs({<<".">>}, CutOutdir)}
    /\ fs_files = {}

\* main(): create the output directory when it does not exist, then call
\* plot_s_over_b.
MakeOutdir ==
    /\ pc = "main"
    /\ fs_dirs' = IF CutOutdir \in fs_dirs THEN fs_dirs ELSE makedirs(fs_dirs, CutOutdir)
    /\ pc' = "scan"
    /\ UNCHANGED <<cut, cut_masked, histos, k, s_over_b, noise_rejection,
                   physics_rejection, scanned, sb_result, fig, ret, fs_files>>
    /\ UNCHANGED <<rfVars, histVars, plotVars>>

\* One pass of plot_s_over_b's loop over the thresholds.
ScanStep ==
    /\ pc = "scan"
    /\ k <= Len(thresholds)
    /\ LET thresh == thresholds[k]
           exp == ScanExpression(thresh)
           r == compute_s_over_b(histos, exp)
       IN  /\ s_over_b' = Append(s_over_b, r[1])
           /\ noise_rejection' = Append(noise_rejection, OneMinus(r[3]))
           /\ physics_rejection' = Append(physics_rejection, OneMinus(r[2]))
           /\ scanned' = Append(scanned, thresh)
           /\ sb_result' = r
    /\ k' = k + 1
    /\ UNCHANGED <<cut, cut_masked, histos, pc, fig, ret, fs_dirs, fs_files>>
    /\ UNCHANGED <<rfVars, histVars, plotVars>>

\* The rest of plot_s_over_b: the figure is drawn and saved.
SaveCutFigure ==
    /\ pc = "scan"
    /\ k > Len(thresholds)
    /\ fig' = ScatterFigure(thresholds, s_over_b, noise_rejection, physics_rejection)
    /\ fs_files' = fs_files \cup {CutOutpath}
    /\ ret' = plot_s_over_b_return(s_over_b)
    /\ pc' = "done"
    /\ UNCHANGED <<cut, cut_masked, histos, k, s_over_b, noise_rejection,
                   physics_rejection, scanned, sb_result, fs_dirs>>
    /\ UNCHANGED <<rfVars, histVars, plotVars>>

CutSearchNext == MakeOutdir \/ ScanStep \/ SaveCutFigure

SpecCutSearch == CutSearchInit /\ [][CutSearchNext]_vars

(***************************************************************************)
(* Claims about the cut search.                                            *)
(***************************************************************************)
\* The sum of the contents h.values[ix][iy] of the bins of h whose x centre
\* is strictly below t (twice the centre is the sum of the two edges).
RECURSIVE SumOver(_, _)
SumOver(cells, h) ==
    IF cells = {} THEN 0
    ELSE LET c == CHOOSE c \in cells : TRUE
         IN  h.values[c[1]][c[2]] + SumOver(cells \ {c}, h)

Cells(h) == (1..Len(h.values)) \X (1..Len(h.values[1]))
PassingCells(h, t) == {c \in Cells(h) : h.edges[1][c[1]] + h.edges[1][c[1] + 1] < 2 * t}
Quotient(a, b) == [masked |-> FALSE, n |-> a, d |-> b]

\* C1: after every call compute_s_over_b(histos, 'x<t') the returned triple is
\* (S/B, physics efficiency, noise efficiency), S/B the passing sum of the
\* Physics Enriched histogram over the passing sum of the Noise Enriched one,
\* each efficiency the histogram's passing sum over its total sum.
C1_TripleIsRatiosOfPassingSums ==
    sb_result # <<>> =>
        LET t == scanned[Len(scanned)]
            p == histos["Physics Enriched"]
            n == histos["Noise Enriched"]
            passP == SumOver(PassingCells(p, t), p)
            passN == SumOver(PassingCells(n, t), n)
        IN  sb_result = <<Quotient(passP, passN),
                          Quotient(passP, SumOver(Cells(p), p)),
                          Quotient(passN, SumOver(Cells(n), n))>>

\* The centre of bin i of an axis satisfies "op rhs" (twice the centre is the
\* sum of the bin's two edges).
CentreSatisfies(edges, i, op, rhs) ==
    IF op = "<" THEN edges[i] + edges[i + 1] < 2 * rhs
    ELSE edges[i] + edges[i + 1] > 2 * rhs

\* C2: return_masked_array keeps exactly the cells of the values grid whose
\* bin centre satisfies the mask expression and masks every other cell; for
\* 'x<t', cell [iy, ix] is kept iff 0.5*(xedges[ix]+xedges[ix+1]) < t, in every
\* row; the array has the shape of the grid and the contents are unchanged.
C2_MaskKeepsCellsSatisfyingExpression ==
    cut_masked # <<>> =>
        LET e == cut.mask_expression
            nx == Len(cut.xedges) - 1
            ny == Len(cut.yedges) - 1
        IN  /\ Len(cut_masked.mask) = ny /\ Len(cut_masked.data) = ny
            /\ \A iy \in 1..ny :
                   /\ Len(cut_masked.mask[iy]) = nx /\ Len(cut_masked.data[iy]) = nx
                   /\ \A ix \in 1..nx :
                          /\ cut_masked.data[iy][ix] = cut.values[iy][ix]
                          /\ (~cut_masked.mask[iy][ix]) <=>
                                 IF e.lhs = "x" THEN CentreSatisfies(cut.xedges, ix, e.op, e.rhs)
                                 ELSE CentreSatisfies(cut.yedges, iy, e.op, e.rhs)
                          /\ (e.lhs = "x" /\ e.op = "<") =>
                                 ((~cut_masked.mask[iy][ix]) <=>
                                     (cut.xedges[ix] + cut.xedges[ix + 1] < 2 * e.rhs))

\* C2's case: the cut 'x<t' on a grid of two rows, its first column kept and
\* its second masked, a kept cell not empty.
C2_Witness ==
    /\ cut_masked # <<>>
    /\ cut.mask_expression.lhs = "x" /\ cut.mask_expression.op = "<"
    /\ Len(cut_masked.mask) = 2
    /\ ~cut_masked.mask[1][1] /\ ~cut_masked.mask[2][1]
    /\ cut_masked.mask[1][2] /\ cut_masked.mask[2][2]
    /\ cut_masked.data[2][1] > 0

\* a > b on two quotients with positive denominators.
Exceeds(a, b) ==
    /\ ~a.masked /\ ~b.masked /\ a.d > 0 /\ b.d > 0
    /\ a.n * b.d > b.n * a.d

\* C3 as stated: when the scan completes it has identified one of the scanned
\* thresholds, whose S/B no other scanned threshold exceeds.
C3_ScanIdentifiesBestThreshold ==
    pc = "done" =>
        /\ ret # <<>>
        /\ ret[1] \in 1..Len(scanned)
        /\ \A j \in 1..Len(scanned) : ~Exceeds(s_over_b[j], s_over_b[ret[1]])

\* C3 as amended: when the scan completes it has drawn the S/B of every
\* scanned threshold, in threshold order, and identified no threshold:
\* plot_s_over_b returns None.
C3_ScanDrawsEveryRatioIdentifiesNone ==
    pc = "done" =>
        /\ ret = <<>>
        /\ fig # <<>>
        /\ fig.ylim = <<0, 1>>
        /\ fig.x = scanned
        /\ Len(fig.series[1]) = Len(scanned)
        /\ \A i \in 1..Len(scanned) :
               fig.series[1][i] = compute_s_over_b(histos, ScanExpression(scanned[i]))[1]

\* C3's case: the scan has completed and two scanned thresholds differ in S/B,
\* so that some threshold is better than another.
C3_Witness ==
    /\ pc = "done"
    /\ \E i, j \in 1..Len(s_over_b) : Exceeds(s_over_b[i], s_over_b[j])

\* C9: when the scan ends it went through exactly 40 thresholds, 0.1 + (i-1) *
\* 0.2/39 for i = 1..40 (78 + 4(i-1) in units of 1/780: 0.1 first, 0.3 last), in
\* this order, and holds one S/B, one noise rejection and one physics rejection
\* per threshold, each rejection 1 minus the efficiency compute_s_over_b
\* returns for that threshold.
C9_ScanOverFortyThresholds ==
    pc = "done" =>
        /\ Len(scanned) = 40
        /\ \A i \in 1..40 : scanned[i] = 78 + 4 * (i - 1)
        /\ scanned[1] = 78 /\ scanned[40] = 234
        /\ Len(s_over_b) = 40 /\ Len(noise_rejection) = 40 /\ Len(physics_rejection) = 40
        /\ \A i \in 1..40 :
               LET r == compute_s_over_b(histos, ScanExpression(scanned[i]))
               IN  /\ s_over_b[i] = r[1]
                   /\ noise_rejection[i] = OneMinus(r[3])
                   /\ physics_rejection[i] = OneMinus(r[2])

\* C9's case: a completed scan whose noise rejection falls strictly between
\* two thresholds of the scan.
C9_Witness ==
    /\ pc = "done"
    /\ Len(noise_rejection) = 40
    /\ noise_rejection[1] # noise_rejection[40]
    /\ ~noise_rejection[40].masked

(***************************************************************************)
(* helpers/rootfile.py: RootFile                                           *)
(*                                                                         *)
(* A key of a ROOT file or directory is a name and a cycle, listed by      *)
(* uproot as b'name;cycle'.  A key text is [name, cycle], cycle 0 for a    *)
(* text without a ';cycle' suffix.  Names are unique within a directory    *)
(* and among the top-level directories, and cycles are 1 or 2.             *)
(***************************************************************************)
DirNames == <<"rechitAnalyzer", "noisyRechitAnalyzer", "vbfAnalyzer">>
HistNames == {"sigmaEtaPhi", "numHFRechits"}
Cycles == {1, 2}

\* The contents a directory can have: each name absent or present in one cycle.
DirContents ==
    {{[name |-> n, cycle |-> c[n]] : n \in present} :
        present \in SUBSET HistNames, c \in [HistNames -> Cycles]}

RootFiles ==
    UNION {[1..n -> {[name |-> "", cycle |-> c, histos |-> h] :
                        c \in Cycles, h \in DirContents}] : n \in 0..MaxDirs}

\* k.decode('utf-8').replace(';1',''): the suffix of cycle 1 is dropped, any
\* other stays.
KeyText(key) ==
    IF key.cycle = 1 THEN [name |-> key.name, cycle |-> 0]
    ELSE [name |-> key.name, cycle |-> key.cycle]

\* uproot's lookup d[text]: the key of that name, and of that cycle when the
\* text gives one.
Matches(key, text) ==
    key.name = text.name /\ (text.cycle = 0 \/ key.cycle = text.cycle)

\* self.keys, from f.keys()
index_into_file(file) ==
    Array([i \in 1..Len(file) |-> KeyText([name |-> file[i].name, cycle |-> file[i].cycle])])

\* [k.decode('utf-8').replace(';1','') for k in self.f[key].keys()], self.f[key]
\* being directory number i of the file.
histos_in_dir(file, i) == {KeyText(h) : h \in file[i].histos}

NotFound == [raised |-> "KeyError", dir |-> 0, hist |-> <<>>]

\* The loop of get_histogram from key number i on.
RECURSIVE get_histogram_from(_, _, _, _)
get_histogram_from(file, keys, histname, i) ==
    IF i > Len(keys) THEN NotFound
    ELSE LET d == CHOOSE j \in 1..Len(file) :
                      Matches([name |-> file[j].name, cycle |-> file[j].cycle], keys[i])
         IN  IF histname \in histos_in_dir(file, d)
             THEN [raised |-> "", dir |-> d,
                   hist |-> CHOOSE h \in file[d].histos : Matches(h, histname)]
             ELSE get_histogram_from(file, keys, histname, i + 1)

get_histogram(file, keys, histname) == get_histogram_from(file, keys, histname, 1)

RootFileInit ==
    /\ CutIdle
    /\ CutSearchIdle
    /\ HistogramIdle
    /\ PlotIdle
    /\ fs_dirs = {} /\ fs_files = {}
    /\ rf_file \in {[i \in 1..Len(f) |-> [f[i] EXCEPT !.name = DirNames[i]]] : f \in RootFiles}
    /\ rf_pc = "new"
    /\ rf_keys = <<>>
    /\ rf_histname = <<>>
    /\ rf_result = <<>>

\* RootFile(inpath): __post_init__ indexes into the file.
RootFileOpen ==
    /\ rf_pc = "new"
    /\ rf_keys' = index_into_file(rf_file)
    /\ rf_pc' = "open"
    /\ UNCHANGED <<rf_file, rf_histname, rf_result>>
    /\ UNCHANGED <<cutVars, fsVars, histVars, plotVars>>

\* rf.get_histogram(histname), histname a name without a cycle suffix.
GetHistogram ==
    /\ rf_pc = "open"
    /\ \E n \in HistNames :
           LET histname == [name |-> n, cycle |-> 0]
           IN  /\ rf_histname' = histname
               /\ rf_result' = get_histogram(rf_file, rf_keys, histname)
    /\ UNCHANGED <<rf_file, rf_pc, rf_keys>>
    /\ UNCHANGED <<cutVars, fsVars, histVars, plotVars>>

RootFileNext == RootFileOpen \/ GetHistogram

SpecRootFile == RootFileInit /\ [][RootFileNext]_vars

(***************************************************************************)
(* Claims about RootFile.                                                  *)
(***************************************************************************)
\* The top-level directories that hold a histogram of that name.
DirsContaining(file, name) ==
    {i \in 1..Len(file) : \E h \in file[i].histos : h.name = name}

Min(S) == CHOOSE m \in S : \A x \in S : m =< x

\* C4: get_histogram(histname) returns the histogram named histname of the
\* first top-level directory, in key order, that contains that name, and
\* raises KeyError iff no top-level directory contains it.
C4_FirstDirectoryContainingOrKeyError ==
    rf_result # <<>> =>
        LET containing == DirsContaining(rf_file, rf_histname.name)
        IN  /\ (rf_result.raised = "KeyError") <=> (containing = {})
            /\ containing # {} =>
                   /\ rf_result.dir = Min(containing)
                   /\ rf_result.hist.name = rf_histname.name

(***************************************************************************)
(* helpers/histogram.py: HistogramBase, Histogram, OverlayHistogram        *)
(*                                                                         *)
(* None is <<>>.  A histogram name is the sequence of the pieces of its    *)
(* text ('centralAdjacentStripSize' is central, Adjacent, Strip, Size), a  *)
(* plot tag the sequence of its pieces with each ', ' a piece of its own.  *)
(* The axis labels and the font size are cosmetic and left out.            *)
(***************************************************************************)
None == <<>>

\* The fields a dataclass constructor accepts as keywords.
HistogramBaseFields == {"name", "xlabel", "ylabel", "fontsize", "plottag"}
Fields(cls) ==
    IF cls = "Histogram"
    THEN HistogramBaseFields \cup {"ndim", "logscale", "vmin", "vmax"}
    ELSE HistogramBaseFields \cup {"root_histo_names", "thresh"}

\* The defaults of the fields (those the model keeps).
Defaults(cls) ==
    IF cls = "Histogram"
    THEN [plottag |-> None, ndim |-> 1, logscale |-> FALSE]
    ELSE [plottag |-> None, root_histo_names |-> <<>>, thresh |-> None]

\* A __post_init__ without the assertion.
MutPostInitAcceptsAll(ndim) == TRUE

\* Histogram.__post_init__: assert self.ndim in (1,2)
post_init_ok(ndim) == ndim \in {1, 2}

\* cls(name, xlabel, ylabel, **kw): the generated __init__ raises TypeError on
\* a keyword that is no field, then Histogram's __post_init__ runs.
dataclass_init(cls, name, kw) ==
    IF ~(DOMAIN kw \subseteq Fields(cls))
    THEN [exc |-> "TypeError", obj |-> None]
    ELSE LET obj == [cls |-> cls, name |-> name] @@ kw @@ Defaults(cls)
         IN  IF cls = "Histogram" /\ ~post_init_ok(obj.ndim)
             THEN [exc |-> "AssertionError", obj |-> None]
             ELSE [exc |-> "", obj |-> obj]

\* sub in name, on sequences of pieces.
Contains(name, sub) ==
    \E i \in 0..(Len(name) - Len(sub)) : SubSeq(name, i + 1, i + Len(sub)) = sub

\* self.plottag.split(', ')
RECURSIVE split(_)
split(tag) ==
    IF \A i \in 1..Len(tag) : tag[i] # ", " THEN <<tag>>
    ELSE LET i == CHOOSE j \in 1..Len(tag) :
                      tag[j] = ", " /\ \A l \in 1..(j - 1) : tag[l] # ", "
         IN  <<SubSeq(tag, 1, i - 1)>> \o split(SubSeq(tag, i + 1, Len(tag)))

\* _decorate_plot: dataset, run = self.plottag.split(', ') raises ValueError
\* unless the tag has exactly two parts; the two texts it writes otherwise.
decorate_plot(plottag) ==
    LET parts == split(plottag)
    IN  IF Len(parts) = 2 THEN [exc |-> "", texts |-> parts]
        ELSE [exc |-> "ValueError", texts |-> <<>>]

\* _save_fig(fig, path): the directory of path is created when it does not
\* exist, then the figure is written to path.
save_fig(dirs, files, path) ==
    LET outdir == dirname(path)
    IN  [dirs |-> IF outdir \in dirs THEN dirs ELSE makedirs(dirs, outdir),
         files |-> files \cup {path}]

\* f"{self.name}.pdf"
PdfName(name) == Append(name, ".pdf")

\* vals /= np.sum(vals) when normed; each content is kept as a quotient.
Vals2D(h_obj, normed) ==
    LET vals == Transpose(h_obj.values)
        total == NpSum(vals)
    IN  Array([iy \in 1..Len(vals) |-> Array([ix \in 1..Len(vals[iy]) |->
            IF normed THEN TrueDiv(Num(vals[iy][ix]), Num(total))
            ELSE Num(vals[iy][ix])])])

\* A plot that normalises when 'Size' occurs in the name.
MutNormedOnSize(name) == Contains(name, <<"Size">>)

\* normed='StripSize' in self.name
normed_for(name) == Contains(name, <<"Strip", "Size">>)

\* Histogram.plot(outdir): what is drawn, by _plot1d or _plot2d.
histogram_plot(h) ==
    IF h.ndim = 1
    THEN [routine |-> "_plot1d", normed |-> FALSE, vals |-> h.h_obj.values,
          annotation |-> None]
    ELSE [routine |-> "_plot2d", normed |-> normed_for(h.name),
          vals |-> Vals2D(h.h_obj, normed_for(h.name)), annotation |-> None]

\* np.sum(vals[mask]) with mask = centers < thresh
SumBelow(histo, thresh) ==
    LET centers == Centers(histo.edges)
    IN  SumSeq(Array([i \in 1..Len(histo.values) |->
            IF centers[i] < thresh THEN histo.values[i] ELSE 0]))

\* OverlayHistogram.compute_ratio: np.sum(vals[mask]) / np.sum(vals) * 100
compute_ratio(histo, thresh) ==
    [masked |-> FALSE, n |-> SumBelow(histo, thresh) * 100, d |-> SumSeq(histo.values)]

\* r > 0 on a quotient: nan (0/0) is not, inf (n/0, n > 0) is.
Positive(r) == IF r.d = 0 THEN r.n > 0 ELSE r.n * r.d > 0

\* The ratios list of OverlayHistogram.plot, from entry i of histo_map on.
RECURSIVE ratios_from(_, _, _)
ratios_from(histo_map, thresh, i) ==
    IF i > Len(histo_map) THEN <<>>
    ELSE LET r == compute_ratio(histo_map[i].h, thresh.value)
         IN  (IF Positive(r) THEN <<r>> ELSE <<>>) \o ratios_from(histo_map, thresh, i + 1)

\* An OverlayHistogram.plot that shows the last ratio.
MutOverlayShowsLast(h) ==
    LET ratios == IF h.thresh # None THEN ratios_from(h.histo_map, h.thresh, 1) ELSE <<>>
    IN  [routine |-> "overlay", normed |-> FALSE,
         vals |-> Array([i \in 1..Len(h.histo_map) |-> h.histo_map[i].h.values]),
         annotation |->
             IF Len(ratios) > 0 /\ h.thresh # None
             THEN [distribution |-> h.thresh.distribution, value |-> h.thresh.value,
                   r |-> ratios[Len(ratios)]]
             ELSE None]

\* OverlayHistogram.plot(outdir): the histograms drawn and the annotation.
overlay_plot(h) ==
    LET ratios == IF h.thresh # None THEN ratios_from(h.histo_map, h.thresh, 1) ELSE <<>>
    IN  [routine |-> "overlay", normed |-> FALSE,
         vals |-> Array([i \in 1..Len(h.histo_map) |-> h.histo_map[i].h.values]),
         annotation |->
             IF Len(ratios) > 0 /\ h.thresh # None
             THEN [distribution |-> h.thresh.distribution, value |-> h.thresh.value,
                   r |-> ratios[1]]
             ELSE None]

\* util.py, get_pretty_plot_tag(dataset): the mapping's tag, and ValueError
\* for a dataset the mapping does not hold.
get_pretty_plot_tag(d) ==
    IF d = "MET"
    THEN [exc |-> "", tag |-> <<"MET 2018A", ", ", "Run: 315264">>]
    ELSE IF d = "EGamma"
    THEN [exc |-> "", tag |-> <<"EGamma 2018D", ", ", "Run: 324500-324999">>]
    ELSE [exc |-> "ValueError", tag |-> None]

\* ---- the inputs
HistogramNames ==
    {<<"central", "Adjacent", "Strip", "Size">>,
     <<"averageDPhi_", "central", "Strip", "Size">>,
     <<"sigma", "Eta", "Phi">>,
     <<"num", "HF", "Rechits">>,
     <<"Strip", "Eta", "Size">>}

NdimChoices == 0..3

\* The tags plot.py sets, from get_pretty_plot_tag.
PlotTags == {get_pretty_plot_tag(d).tag : d \in {"MET", "EGamma"}}

\* 1D histograms (edges in GeV) and 2D histograms, values[ix][iy].
Histos1D ==
    {[edges |-> e, values |-> v] :
        e \in {<<0, 100, 200>>, <<0, 200, 400>>}, v \in [1..2 -> 0..MaxCount]}
Histos2D ==
    {[edges |-> <<<<0, 80, 240>>, <<0, 100>> >>, values |-> v] : v \in Matrices(2, 1)}

Thresholds == {None, [distribution |-> "MET", value |-> 100],
               [distribution |-> "MET", value |-> 150]}

Outdirs == {<<".", "output", "job">>, <<".", "plots">>}

HistogramInit ==
    /\ CutIdle
    /\ CutSearchIdle
    /\ RootFileIdle
    /\ PlotIdle
    /\ fs_dirs \in {{<<".">>}, {<<".">>, <<".", "output">>},
                    {<<".">>, <<".", "output">>, <<".", "output", "job">>}}
    /\ fs_files = {}
    /\ hist = None
    /\ h_pc = "new"
    /\ h_call = <<>>
    /\ h_exc = ""
    /\ h_outdir = <<>>
    /\ drawn = <<>>

\* The constructor call's outcome: the instance, or the exception.
Construct(cls, name, kw) ==
    LET r == dataclass_init(cls, name, kw)
    IN  /\ h_call' = [cls |-> cls, name |-> name, kw |-> kw]
        /\ h_exc' = r.exc
        /\ hist' = r.obj
        /\ h_pc' = IF r.exc = "" THEN "constructed" ELSE "raised"
        /\ UNCHANGED <<h_outdir, drawn>>
        /\ UNCHANGED <<cutVars, fsVars, rfVars, plotVars>>

\* Histogram(name, xlabel, ylabel, ndim=n), or without ndim
NewHistogram ==
    /\ h_pc = "new"
    /\ \E name \in HistogramNames :
           \/ Construct("Histogram", name, <<>>)
           \/ \E n \in NdimChoices : Construct("Histogram", name, [ndim |-> n])

\* OverlayHistogram(name, xlabel, ylabel, root_histo_names=[...], thresh=t)
NewOverlayHistogram ==
    /\ h_pc = "new"
    /\ \E t \in Thresholds :
           Construct("OverlayHistogram", <<"met">>,
                     [root_histo_names |-> <<"metPtNotClean", "metPtClean">>, thresh |-> t])

\* hist.set_histogram_object(h), then hist.plottag = tag as plot.py does (or
\* the tag left None).
SetHistogramObject ==
    /\ h_pc = "constructed"
    /\ hist.cls = "Histogram"
    /\ \E h \in (IF hist.ndim = 1 THEN Histos1D ELSE Histos2D), tag \in PlotTags \cup {None} :
           hist' = [h_obj |-> h] @@ [hist EXCEPT !.plottag = tag]
    /\ h_pc' = "attached"
    /\ UNCHANGED <<h_call, h_exc, h_outdir, drawn>>
    /\ UNCHANGED <<cutVars, fsVars, rfVars, plotVars>>

\* hist.set_histogram_objects(histo_map), histo_map in the order of
\* root_histo_names, then hist.plottag = tag.
SetHistogramObjects ==
    /\ h_pc = "constructed"
    /\ hist.cls = "OverlayHistogram"
    /\ \E h1, h2 \in Histos1D, tag \in PlotTags \cup {None} :
           hist' = [histo_map |-> <<[label |-> hist.root_histo_names[1], h |-> h1],
                                    [label |-> hist.root_histo_names[2], h |-> h2]>>]
                   @@ [hist EXCEPT !.plottag = tag]
    /\ h_pc' = "attached"
    /\ UNCHANGED <<h_call, h_exc, h_outdir, drawn>>
    /\ UNCHANGED <<cutVars, fsVars, rfVars, plotVars>>

\* hist.plot(outdir) of either class: the drawing, the decoration when the
\* plot tag is set, and _save_fig.
Plot ==
    /\ h_pc = "attached"
    /\ \E outdir \in Outdirs :
           LET d == IF hist.cls = "Histogram" THEN histogram_plot(hist) ELSE overlay_plot(hist)
               deco == IF hist.plottag # None THEN decorate_plot(hist.plottag)
                       ELSE [exc |-> "", texts |-> <<>>]
               saved == save_fig(fs_dirs, fs_files, join(outdir, PdfName(hist.name)))
           IN  /\ h_outdir' = outdir
               /\ h_exc' = deco.exc
               /\ IF deco.exc = ""
                  THEN /\ drawn' = [texts |-> deco.texts] @@ d
                       /\ fs_dirs' = saved.dirs
                       /\ fs_files' = saved.files
                       /\ h_pc' = "plotted"
                  ELSE /\ h_pc' = "raised"
                       /\ UNCHANGED <<drawn, fs_dirs, fs_files>>
    /\ UNCHANGED <<hist, h_call>>
    /\ UNCHANGED <<cutVars, rfVars, plotVars>>

HistogramNext ==
    NewHistogram \/ NewOverlayHistogram \/ SetHistogramObject \/ SetHistogramObjects \/ Plot

SpecHistogram == HistogramInit /\ [][HistogramNext]_vars

(***************************************************************************)
(* Claims about Histogram and OverlayHistogram.                            *)
(***************************************************************************)
\* C7: a Histogram exists only with ndim 1 or 2: the constructor called with
\* any other ndim raises AssertionError and leaves no instance.
C7_HistogramNdimIsOneOrTwo ==
    /\ (hist # None /\ hist.cls = "Histogram") => hist.ndim \in {1, 2}
    /\ (h_call # <<>> /\ h_call.cls = "Histogram") =>
           LET ndim == IF "ndim" \in DOMAIN h_call.kw THEN h_call.kw.ndim ELSE 1
           IN  IF ndim = 1 \/ ndim = 2
               THEN hist # None /\ hist.ndim = ndim
               ELSE hist = None /\ h_exc = "AssertionError" /\ h_pc = "raised"

\* C7's case: the constructor was called with ndim 3 and failed.
C7_Witness ==
    /\ h_call # <<>> /\ h_call.cls = "Histogram"
    /\ "ndim" \in DOMAIN h_call.kw /\ h_call.kw.ndim = 3
    /\ h_exc = "AssertionError"

\* C8: Histogram.plot(outdir) ends without raising, having written exactly one
\* file, outdir/<name>.pdf, and created outdir when it did not exist (and no
\* directory otherwise); ndim 1 is drawn by _plot1d, ndim 2 by _plot2d, the
\* contents divided by their sum iff 'StripSize' occurs in the name.
C8_PlotRendersOneFile ==
    [][(h_pc = "attached" /\ h_pc' # "attached" /\ hist.cls = "Histogram") =>
        LET path == [dir |-> h_outdir', file |-> hist.name \o <<".pdf">>]
            strip == \E i \in 1..(Len(hist.name) - 1) :
                         hist.name[i] = "Strip" /\ hist.name[i + 1] = "Size"
            v == hist.h_obj.values
        IN  /\ h_pc' = "plotted" /\ h_exc' = ""
            /\ fs_files' = fs_files \cup {path}
            /\ fs_dirs \subseteq fs_dirs' /\ h_outdir' \in fs_dirs'
            /\ (h_outdir' \in fs_dirs) => (fs_dirs' = fs_dirs)
            /\ (hist.ndim = 1) =>
                   /\ drawn'.routine = "_plot1d"
                   /\ drawn'.vals = v
            /\ (hist.ndim = 2) =>
                   /\ drawn'.routine = "_plot2d"
                   /\ drawn'.normed <=> strip
                   /\ \A ix \in 1..Len(v) : \A iy \in 1..Len(v[ix]) :
                          /\ drawn'.vals[iy][ix].n = v[ix][iy]
                          /\ drawn'.vals[iy][ix].d =
                                 IF strip THEN SumOver(Cells(hist.h_obj), hist.h_obj) ELSE 1
    ]_vars

\* C8's case: a 2D histogram with 'StripSize' in its name was plotted into a
\* directory that did not exist.
C8_Witness ==
    /\ h_pc = "plotted" /\ hist.cls = "Histogram" /\ hist.ndim = 2
    /\ drawn.normed /\ drawn.vals[1][1].n > 0
    /\ h_outdir = <<".", "plots">>
    /\ [dir |-> h_outdir, file |-> hist.name \o <<".pdf">>] \in fs_files

\* 100 times the sum of the contents of the bins of a 1D histogram whose
\* centre is strictly below thresh, over the sum of all contents.
RECURSIVE SumBins(_, _)
SumBins(bins, histo) ==
    IF bins = {} THEN 0
    ELSE LET b == CHOOSE b \in bins : TRUE
         IN  histo.values[b] + SumBins(bins \ {b}, histo)

Bins(histo) == 1..Len(histo.values)
BinsBelow(histo, thresh) ==
    {b \in Bins(histo) : histo.edges[b] + histo.edges[b + 1] < 2 * thresh}
ClaimedRatio(histo, thresh) ==
    Quotient(100 * SumBins(BinsBelow(histo, thresh), histo), SumBins(Bins(histo), histo))

\* Two quotients are the same number (or both undefined).
SameQuotient(a, b) == a.n * b.d = b.n * a.d /\ ((a.d = 0) <=> (b.d = 0))

\* C10: compute_ratio(histo, thresh) is 100 times the sum of the bins centred
\* strictly below thresh over the sum of all bins; plot writes the annotation
\* iff thresh is set and some overlaid histogram has a ratio above 0, and shows
\* the ratio of the first such histogram in histo_map order.
C10_OverlayRatioAnnotation ==
    (h_pc = "plotted" /\ hist.cls = "OverlayHistogram") =>
        LET m == hist.histo_map
            above == IF hist.thresh = None THEN {}
                     ELSE {i \in 1..Len(m) :
                              LET r == ClaimedRatio(m[i].h, hist.thresh.value)
                              IN  r.d > 0 /\ r.n > 0}
        IN  /\ hist.thresh # None =>
                   \A i \in 1..Len(m) :
                       SameQuotient(compute_ratio(m[i].h, hist.thresh.value),
                                    ClaimedRatio(m[i].h, hist.thresh.value))
            /\ (drawn.annotation # None) <=> (hist.thresh # None /\ above # {})
            /\ drawn.annotation # None =>
                   SameQuotient(drawn.annotation.r,
                                ClaimedRatio(m[Min(above)].h, hist.thresh.value))

\* C10's case: the first overlaid histogram has ratio 0, the second a ratio
\* above 0, which the annotation shows.
C10_Witness ==
    /\ h_pc = "plotted" /\ hist.cls = "OverlayHistogram" /\ hist.thresh # None
    /\ ~Positive(compute_ratio(hist.histo_map[1].h, hist.thresh.value))
    /\ Positive(compute_ratio(hist.histo_map[2].h, hist.thresh.value))
    /\ drawn.annotation # None

(***************************************************************************)
(* plot.py: get_histograms_for_dataset, and the plot tag                   *)
(***************************************************************************)
H(name, kw) == [cls |-> "Histogram", name |-> name, kw |-> kw]
O(name, kw) == [cls |-> "OverlayHistogram", name |-> name, kw |-> kw]
D1 == [ndim |-> 1]
D2 == [ndim |-> 2]
Log(ndim, vmin, vmax) == [ndim |-> ndim, logscale |-> TRUE, vmin |-> vmin, vmax |-> vmax]
Met(value) ==
    [root_histo_names |-> <<"metPtNotClean", "metPtClean">>,
     thresh |-> [distribution |-> "MET", value |-> value]]

\* The constructor calls of get_histograms_for_dataset, list by list, in the
\* order they are evaluated.
common_histograms ==
    <<H(<<"num", "HF", "Rechits">>, D1),
      H(<<"sigma", "Eta", "Phi">>, Log(2, 1, 500)),
      H(<<"central", "Adjacent", "Strip", "Size">>, D2),
      H(<<"longFiberEtOverShortFiber">>, Log(1, 1, 100000))>>

vbf_histograms ==
    <<H(<<"jetPt0">>, D1), H(<<"jetEta0">>, D1), H(<<"jetPhi0">>, D1),
      H(<<"jetPt1">>, D1), H(<<"jetEta1">>, D1), H(<<"jetPhi1">>, D1),
      H(<<"mjj">>, D1), H(<<"detajj">>, D1), H(<<"dphijj">>, D1),
      O(<<"met">>, Met(150))>>

physics_histograms ==
    <<H(<<"photonPt">>, D1), H(<<"photonEta">>, D1), H(<<"photonPhi">>, D1),
      H(<<"dphiJetPho">>, D1), H(<<"dptJetPho">>, D1),
      H(<<"averageDPhi_", "central", "Strip", "Size">>, Log(2, 1, 500))>>

noise_histograms ==
    <<H(<<"jetPt">>, D1), H(<<"jetEta">>, D1), H(<<"jetPhi">>, D1),
      H(<<"sigmaEtaEta">>, D1), H(<<"sigmaPhiPhi">>, D1),
      H(<<"deltaPhiJetMET">>, D1), H(<<"averageDPhiFromSeed">>, D1),
      H(<<"deltaEtaRechits">>, D1), H(<<"deltaPhiRechits">>, D1),
      H(<<"sigmaPhiRechitEnergy">>, Log(2, 1, 500)),
      H(<<"sigmaPhiRechitEta">>, Log(2, 1, 500)),
      H(<<"sigmaPhiRechitPhi">>, Log(2, 1, 500)),
      H(<<"initialRechitEtaPhi">>, Log(2, 1000, 10000000)),
      H(<<"mergedRechitEtaPhi">>, Log(2, 1000, 10000000)),
      H(<<"initialMergedRechitEnergies">>, Log(2, 1, 10000000)),
      O(<<"met">>, Met(100)),
      O(<<"numRechits">>,
        [root_histo_names |-> <<"numInitialRechits", "numMergedRechits">>,
         logscale |-> TRUE, vmin |-> 1, vmax |-> 1000000]),
      O(<<"rechitEnergies">>,
        [root_histo_names |-> <<"initialRechitEnergies", "mergedRechitEnergies">>,
         logscale |-> TRUE, vmin |-> 1, vmax |-> 1000000000])>>

Tagged(list, calls) == [i \in 1..Len(calls) |-> [list |-> list, call |-> calls[i]]]

HistogramCalls ==
    Tagged("common", common_histograms) \o Tagged("vbf", vbf_histograms)
        \o Tagged("physics", physics_histograms) \o Tagged("noise", noise_histograms)

\* histos[dataset], from the four lists; KeyError for any other dataset.
histos_for(lists, d) ==
    IF d = "EGamma" THEN [exc |-> "", value |-> lists.common \o lists.physics]
    ELSE IF d = "MET" THEN [exc |-> "", value |-> lists.common \o lists.noise]
    ELSE IF d = "VBFHinv" THEN [exc |-> "", value |-> lists.common \o lists.vbf]
    ELSE [exc |-> "KeyError", value |-> <<>>]

\* plot.py, parse_cli: the choices of --dataset.
CliChoices == {"MET", "EGamma", "VBFHinv"}

PlotInit ==
    /\ CutIdle
    /\ CutSearchIdle
    /\ RootFileIdle
    /\ HistogramIdle
    /\ fs_dirs = {} /\ fs_files = {}
    /\ MainIdle
    /\ dataset \in CliChoices \cup {"SingleMuon"}
    /\ gh_pc = 1
    /\ gh_lists = [common |-> <<>>, vbf |-> <<>>, physics |-> <<>>, noise |-> <<>>]
    /\ gh_result = <<>>
    /\ tag_result = <<>>
    /\ tag_parts = <<>>

\* get_histograms_for_dataset(dataset), one constructor call at a time: the
\* object joins its list, or the constructor's exception ends the function;
\* after the last call the function returns histos[dataset].
GetHistogramsStep ==
    /\ gh_result = <<>>
    /\ gh_pc \in 1..Len(HistogramCalls)
    /\ LET c == HistogramCalls[gh_pc]
           r == dataclass_init(c.call.cls, c.call.name, c.call.kw)
           lists == [gh_lists EXCEPT ![c.list] = Append(@, r.obj)]
       IN  IF r.exc # ""
           THEN /\ gh_result' = [exc |-> r.exc, value |-> <<>>]
                /\ UNCHANGED <<gh_pc, gh_lists>>
           ELSE /\ gh_lists' = lists
                /\ gh_result' = IF gh_pc < Len(HistogramCalls) THEN <<>>
                                ELSE histos_for(lists, dataset)
                /\ gh_pc' = IF gh_pc < Len(HistogramCalls) THEN gh_pc + 1 ELSE gh_pc
    /\ UNCHANGED <<dataset, tag_result, tag_parts, mainVars>>
    /\ UNCHANGED <<cutVars, fsVars, rfVars, histVars>>

\* get_pretty_plot_tag(args.dataset)
GetPrettyPlotTag ==
    /\ gh_pc > 0
    /\ tag_result = <<>>
    /\ tag_result' = get_pretty_plot_tag(dataset)
    /\ UNCHANGED <<dataset, gh_pc, gh_lists, gh_result, tag_parts, mainVars>>
    /\ UNCHANGED <<cutVars, fsVars, rfVars, histVars>>

\* _decorate_plot of a histogram whose plottag is that tag.
DecoratePlot ==
    /\ tag_result # <<>>
    /\ tag_result.exc = ""
    /\ tag_parts = <<>>
    /\ tag_parts' = decorate_plot(tag_result.tag)
    /\ UNCHANGED <<dataset, gh_pc, gh_lists, gh_result, tag_result, mainVars>>
    /\ UNCHANGED <<cutVars, fsVars, rfVars, histVars>>

PlotNext == GetHistogramsStep \/ GetPrettyPlotTag \/ DecoratePlot

SpecPlot == PlotInit /\ [][PlotNext]_vars

(***************************************************************************)
(* Claims about plot.py and util.py.                                       *)
(***************************************************************************)
Names(calls) == [i \in 1..Len(calls) |-> calls[i].name]
OwnHistograms(d) ==
    IF d = "MET" THEN noise_histograms
    ELSE IF d = "EGamma" THEN physics_histograms
    ELSE vbf_histograms

\* C5: for each of MET, EGamma and VBFHinv, get_histograms_for_dataset ends by
\* returning the four common histograms followed by the dataset's own, and
\* does not raise.
C5_ListForEveryDataset ==
    (dataset \in CliChoices /\ gh_result # <<>>) =>
        /\ gh_result.exc = ""
        /\ Names(gh_result.value) =
               Names(common_histograms) \o Names(OwnHistograms(dataset))

\* C6: for every dataset --dataset accepts, get_pretty_plot_tag returns a tag
\* that _decorate_plot splits into exactly two parts, and it raises ValueError
\* only for a name outside the accepted ones.
C6_TagForEveryAcceptedDataset ==
    tag_result # <<>> =>
        /\ dataset \in CliChoices =>
               /\ tag_result.exc = ""
               /\ Len(split(tag_result.tag)) = 2
               /\ tag_parts # <<>> => (tag_parts.exc = "" /\ Len(tag_parts.texts) = 2)
        /\ tag_result.exc = "ValueError" => dataset \notin CliChoices

(***************************************************************************)
(* plot.py: main                                                           *)
(*                                                                         *)
(* A --distribution regex is a literal text, followed or not by '.*'; it   *)
(* is kept as the pieces of the literal.  re.match looks for the literal   *)
(* at the start of the name, so it matches the names the literal's pieces  *)
(* are a prefix of; the regexes below are those for which the pieces tell  *)
(* the same as the text does on every name of the lists.  The name of a    *)
(* constituent of an overlay is the one piece of its text.                 *)
(***************************************************************************)
\* args.dataset when --dataset is not given (None)
NoDataset == ""

\* inpath, and get_job_tag(inpath) = basename(dirname(inpath))
Inpath == [dir |-> <<"data", "job">>, file |-> <<"merged", ".root">>]
get_job_tag(inpath) == dirname(inpath)[Len(dirname(inpath))]

\* outdir = f"./output/{tag}"
MainOutdir == <<".", "output", get_job_tag(Inpath)>>

\* The --distribution regexes: '.*' (the default), 'central', 'Strip',
\* 'met' and 'numHFRechits'.
Distributions ==
    {<<>>, <<"central">>, <<"Strip">>, <<"met">>, <<"num", "HF", "Rechits">>}

\* re.match(regex, name): a match at the start of name.
re_match(regex, name) ==
    Len(regex) =< Len(name) /\ SubSeq(name, 1, Len(regex)) = regex

\* The histograms the only directory of the input file can hold.
MainHistNames ==
    {<<"num", "HF", "Rechits">>, <<"sigma", "Eta", "Phi">>,
     <<"central", "Adjacent", "Strip", "Size">>,
     <<"metPtNotClean">>, <<"metPtClean">>}

MainFiles ==
    {<<[name |-> DirNames[1], cycle |-> 1,
        histos |-> {[name |-> n, cycle |-> 1] : n \in present}]>> :
        present \in SUBSET MainHistNames}

\* rf.get_histogram(name), name the pieces of the histogram's name
rf_get_histogram(file, keys, name) ==
    get_histogram(file, keys, [name |-> name, cycle |-> 0])

\* histo_map of the overlay branch: the outcome of rf.get_histogram for each
\* of root_histo_names, in order.
histo_map_for(file, keys, root_histo_names) ==
    Array([j \in 1..Len(root_histo_names) |->
        [label |-> root_histo_names[j],
         r |-> rf_get_histogram(file, keys, <<root_histo_names[j]>>)]])

\* One pass of main's loop for a histogram h that matched the regex: what is
\* raised, the histogram as plotted (none when it is skipped), and the file
\* system after hist.plot(outdir).
loop_body(h, file, keys, d, dirs, files) ==
    LET skip == [exc |-> "", plotted |-> <<>>, dirs |-> dirs, files |-> files]
        raise(e) == [exc |-> e, plotted |-> <<>>, dirs |-> dirs, files |-> files]
        tag == get_pretty_plot_tag(d)
        deco == decorate_plot(tag.tag)
        saved == save_fig(dirs, files, join(MainOutdir, PdfName(h.name)))
        plot(obj) ==
            IF tag.exc # "" THEN raise(tag.exc)
            ELSE IF deco.exc # "" THEN raise(deco.exc)
            ELSE [exc |-> "", plotted |-> <<[obj EXCEPT !.plottag = tag.tag]>>,
                  dirs |-> saved.dirs, files |-> saved.files]
    IN  IF h.cls = "Histogram"
        THEN LET r == rf_get_histogram(file, keys, h.name)
                 vmax == IF d \in {"EGamma", "VBFHinv"} /\ h.name = <<"sigma", "Eta", "Phi">>
                         THEN [vmax |-> 100] ELSE <<>>
             IN  IF r.raised = "KeyError" THEN skip
                 ELSE plot(vmax @@ [h_obj |-> r.hist] @@ h)
        ELSE LET histo_map == histo_map_for(file, keys, h.root_histo_names)
             IN  IF \E j \in 1..Len(histo_map) : histo_map[j].r.raised = "KeyError"
                 THEN raise("KeyError")
                 ELSE plot([histo_map |-> histo_map] @@ h)

MainInit ==
    /\ CutIdle
    /\ CutSearchIdle
    /\ HistogramIdle
    /\ fs_dirs \in {{<<".">>}, {<<".">>, <<".", "output">>}}
    /\ fs_files = {}
    /\ rf_file \in MainFiles
    /\ rf_pc = "new"
    /\ rf_keys = <<>>
    /\ rf_histname = <<>>
    /\ rf_result = <<>>
    /\ dataset \in CliChoices \cup {NoDataset}
    /\ gh_pc = 0
    /\ gh_lists = [common |-> <<>>, vbf |-> <<>>, physics |-> <<>>, noise |-> <<>>]
    /\ gh_result = <<>>
    /\ tag_result = <<>>
    /\ tag_parts = <<>>
    /\ distribution \in Distributions
    /\ m_pc = "start"
    /\ m_i = 1
    /\ m_plotted = <<>>
    /\ m_exc = ""

\* main up to the call of get_histograms_for_dataset: rf = RootFile(inpath),
\* the job tag and outdir, and the assertion on args.dataset.
MainStart ==
    /\ m_pc = "start"
    /\ rf_keys' = index_into_file(rf_file)
    /\ rf_pc' = "open"
    /\ IF dataset = NoDataset
       THEN /\ m_exc' = "AssertionError"
            /\ m_pc' = "raised"
            /\ UNCHANGED gh_pc
       ELSE /\ m_pc' = "histograms"
            /\ gh_pc' = 1
            /\ UNCHANGED m_exc
    /\ UNCHANGED <<rf_file, rf_histname, rf_result>>
    /\ UNCHANGED <<dataset, gh_lists, gh_result, tag_result, tag_parts>>
    /\ UNCHANGED <<distribution, m_i, m_plotted>>
    /\ UNCHANGED <<cutVars, fsVars, histVars>>

\* histograms = get_histograms_for_dataset(args.dataset) once the function
\* has ended, and the loop over histograms, one histogram per step: its
\* exception ends main, so does an exception of the loop body.
MainLoop ==
    /\ m_pc \in {"histograms", "loop"}
    /\ gh_result # <<>>
    /\ IF gh_result.exc # ""
       THEN /\ m_exc' = gh_result.exc
            /\ m_pc' = "raised"
            /\ UNCHANGED <<m_i, m_plotted, fsVars>>
       ELSE IF m_i > Len(gh_result.value)
       THEN /\ m_pc' = "done"
            /\ UNCHANGED <<m_i, m_plotted, m_exc, fsVars>>
       ELSE IF ~re_match(distribution, gh_result.value[m_i].name)
       THEN /\ m_pc' = "loop"
            /\ m_i' = m_i + 1
            /\ UNCHANGED <<m_plotted, m_exc, fsVars>>
       ELSE LET b == loop_body(gh_result.value[m_i], rf_file, rf_keys, dataset,
                               fs_dirs, fs_files)
            IN  /\ m_exc' = b.exc
                /\ m_pc' = IF b.exc # "" THEN "raised" ELSE "loop"
                /\ m_i' = IF b.exc # "" THEN m_i ELSE m_i + 1
                /\ m_plotted' = m_plotted \o b.plotted
                /\ fs_dirs' = b.dirs
                /\ fs_files' = b.files
    /\ UNCHANGED <<dataset, gh_pc, gh_lists, gh_result, tag_result, tag_parts>>
    /\ UNCHANGED distribution
    /\ UNCHANGED <<cutVars, rfVars, histVars>>

MainNext == MainStart \/ GetHistogramsStep \/ MainLoop

SpecMain == MainInit /\ [][MainNext]_vars

(***************************************************************************)
(* Claims about main.                                                      *)
(***************************************************************************)
\* The run the loop makes of a list of histograms from number i on: the
\* names plotted, in order, and the exception that ends it.  A histogram whose
\* name the regex does not match at its start is passed over; a single
\* Histogram for which get_histogram raises KeyError is skipped; an overlay
\* with a constituent for which it raises KeyError ends the run.
RECURSIVE LoopRun(_, _)
LoopRun(list, i) ==
    IF i > Len(list) THEN [plotted |-> <<>>, exc |-> ""]
    ELSE LET h == list[i]
             rest == LoopRun(list, i + 1)
             missing(name) == rf_get_histogram(rf_file, rf_keys, name).raised = "KeyError"
             plot == [plotted |-> <<h.name>> \o rest.plotted, exc |-> rest.exc]
         IN  IF ~re_match(distribution, h.name) THEN rest
             ELSE IF h.cls = "Histogram"
             THEN IF missing(h.name) THEN rest ELSE plot
             ELSE IF \E j \in 1..Len(h.kw.root_histo_names) :
                        missing(<<h.kw.root_histo_names[j]>>)
             THEN [plotted |-> <<>>, exc |-> "KeyError"]
             ELSE plot

\* C11: main's loop goes through the dataset's histograms in list order and
\* considers those whose name the --distribution regex matches from the start;
\* a single Histogram missing from the file (get_histogram raises KeyError) is
\* skipped and the loop goes on, a missing constituent of an OverlayHistogram
\* ends the run with KeyError and nothing later is plotted: when main has
\* ended, what it plotted and how it ended are that run's.
C11_LoopSkipsMissingSingleEndsOnMissingOverlay ==
    (m_pc \in {"done", "raised"} /\ dataset \in CliChoices) =>
        LET run == LoopRun(common_histograms \o OwnHistograms(dataset), 1)
        IN  /\ Names(m_plotted) = run.plotted
            /\ m_exc = run.exc
            /\ (m_pc = "raised") <=> (run.exc = "KeyError")

====
